---- MODULE Spec2Model ----
(***************************************************************************)
(* Model of the cxo content-addressed store (package data: DB) and of the  *)
(* skyobject Container (SetRoot, SetEncodedRoot, Want), and of the calls of *)
(* several goroutines on one DB under its sync.RWMutex.                    *)
(*                                                                         *)
(* A byte slice is a sequence of small naturals.  A Go slice argument that *)
(* may be nil is the record [isNil, b]; the table itself holds sequences,  *)
(* because Update and Add refuse nil before they store.                    *)
(***************************************************************************)
EXTENDS Integers, Sequences, FiniteSets, TLC

VARIABLES
    data,    \* DB.data: the table, a function from the present keys to payloads
    root,    \* Container.root: NilRoot or a Root record
    last,    \* the most recent call: its name, arguments and results
    offered, \* the timestamps of all roots handed to SetRoot so far
    lock,    \* DB.RWMutex: the goroutines that hold it, to write and to read
    threads  \* the goroutines that call the DB: each one's call and position

\* the state of the goroutines and of the mutex
conc == <<lock, threads>>

vars == <<data, root, last, offered, lock, threads>>

-----------------------------------------------------------------------------
(* Bounds of the model.                                                    *)

\* the store specification calls Add with the keys 0..MaxKey
MaxKey == 3
\* the store specification passes the first MaxPayload payloads of Universe
MaxPayload == 3
\* root candidates carry the timestamps 0..MaxTime
MaxTime == 2
\* the number of goroutines that call the DB at the same time
NThreads == 2

-----------------------------------------------------------------------------
(* Byte slices and the hash.                                               *)

\* the zero value cipher.SHA256{}
ZeroKey == 0

Slice(b) == [b |-> b, isNil |-> FALSE]
NilSlice == [b |-> <<>>, isNil |-> TRUE]

\* The byte strings of the model, listed in the order of their digests:
\* the digest of Universe[k] is k.  Read as a schema a payload is its list
\* of field codes (see FieldTable); read as an object it is the encoding of
\* the field values: one byte for a reference, a length byte and the
\* elements for an array of references, two bytes for a dynamic reference.
Universe ==
    << <<>>,        \* 1: schema without fields; object without fields
       <<2>>,       \* 2: schema {Plain A}; object referring to 2 (itself)
       <<1>>,       \* 3: schema {Array A}; object referring to 1
       <<3>>,       \* 4: schema {Dynamic}; object referring to 3
       <<0>>,       \* 5: empty array; nil reference; not a schema
       <<2, 3, 5>>, \* 6: array [3, 5]; dynamic reference (2, 3)
       <<1, 6>>,    \* 7: array [6]; dynamic reference (1, 6)
       <<7>>,       \* 8: schema whose tag is malformed
       <<4>> >>     \* 9: schema whose tag names no schema

Keys == 1..Len(Universe)

\* cipher.SumSHA256: injective on Universe and never the zero key
SumSHA256(b) == CHOOSE k \in Keys : Universe[k] = b

\* createKey hashes the bytes of the slice; a nil slice hashes like an
\* empty one
createKey(s) == SumSHA256(s.b)

\* encoder.Serialize on the values the model saves: an empty struct has no
\* bytes, a uint8 is its byte, a bool is the byte 1 or 0
Serialize(v) ==
    CASE v.kind = "struct" -> Slice(<<>>)
      [] v.kind = "uint8"  -> Slice(<<v.n % 256>>)
      [] v.kind = "bool"   -> Slice(<<IF v.n = 0 THEN 0 ELSE 1>>)

-----------------------------------------------------------------------------
(* package data: the DB methods as functions of the table d.               *)

put(d, key, b) ==
    [k \in DOMAIN d \cup {key} |-> IF k = key THEN b ELSE d[k]]

has(d, key) == key \in DOMAIN d

Has(d, key) == has(d, key)

Get(d, key) ==
    IF key \in DOMAIN d
    THEN [v |-> Slice(d[key]), ok |-> TRUE]
    ELSE [v |-> NilSlice, ok |-> FALSE]

\* a mutant of Update: it keeps the payload of a key that is present
UpdateKeepsOld(d, s) ==
    LET key == createKey(s) IN
    IF key = ZeroKey \/ s.isNil
    THEN [panic |-> TRUE, data |-> d, key |-> ZeroKey]
    ELSE [panic |-> FALSE,
          data  |-> IF has(d, key) THEN d ELSE put(d, key, s.b),
          key   |-> key]

\* a mutant of Update: it appends to the payload of a key that is present
UpdateAppends(d, s) ==
    LET key == createKey(s) IN
    IF key = ZeroKey \/ s.isNil
    THEN [panic |-> TRUE, data |-> d, key |-> ZeroKey]
    ELSE [panic |-> FALSE,
          data  |-> put(d, key,
                        IF has(d, key) THEN d[key] \o s.b ELSE s.b),
          key   |-> key]

Update(d, s) ==
    LET key == createKey(s) IN
    IF key = ZeroKey \/ s.isNil
    THEN [panic |-> TRUE, data |-> d, key |-> ZeroKey]
    ELSE [panic |-> FALSE, data |-> put(d, key, s.b), key |-> key]

Save(d, v) == Update(d, Serialize(v))

\* a mutant of Add: it stores without the presence check
AddOverwrites(d, key, s) ==
    IF key = ZeroKey \/ s.isNil
    THEN [panic |-> TRUE, data |-> d, err |-> ""]
    ELSE [panic |-> FALSE, data |-> put(d, key, s.b), err |-> ""]

Add(d, key, s) ==
    IF key = ZeroKey \/ s.isNil
    THEN [panic |-> TRUE, data |-> d, err |-> ""]
    ELSE IF has(d, key)
         THEN [panic |-> FALSE, data |-> d, err |-> "key already present"]
         ELSE [panic |-> FALSE, data |-> put(d, key, s.b), err |-> ""]

-----------------------------------------------------------------------------
(* The record of the most recent call.                                     *)

NilRoot == [nil |-> TRUE]

NilWant == [isNil |-> TRUE, keys |-> {}]

NoValue == [kind |-> "none", n |-> 0]

NoCall ==
    [op    |-> "none",   \* the method called
     key   |-> ZeroKey,  \* its key argument
     val   |-> NilSlice, \* its byte-slice argument
     value |-> NoValue,  \* the value given to Save
     cand  |-> NilRoot,  \* the root given to SetRoot
     rep   |-> FALSE,    \* the call before it was the same call
     panic |-> FALSE,    \* the call panicked
     ret   |-> ZeroKey,  \* the key it returned
     err   |-> "",       \* the error it returned, "" for nil
     ok    |-> FALSE,    \* the boolean it returned
     out   |-> NilSlice, \* the bytes it returned
     want  |-> NilWant,  \* the want map it returned
     tag   |-> <<>>]     \* the tag given to schemaByTag

\* the call op(key, s, v) repeats the call recorded in last
Repeats(op, key, s, v) ==
    last.op = op /\ last.key = key /\ last.val = s /\ last.value = v

-----------------------------------------------------------------------------
(* The store specification: any sequence of calls on one DB.               *)

StoreKeys == ZeroKey..MaxKey

StorePayloads ==
    {NilSlice} \cup {Slice(Universe[i]) : i \in 1..MaxPayload}

SaveValues ==
    {[kind |-> "struct", n |-> 0], [kind |-> "uint8", n |-> 1],
     [kind |-> "uint8", n |-> 2], [kind |-> "bool", n |-> 1]}

CallUpdate(s) ==
    LET r == Update(data, s) IN
    /\ data' = r.data
    /\ last' = [NoCall EXCEPT !.op = "Update", !.val = s,
                              !.rep = Repeats("Update", ZeroKey, s, NoValue),
                              !.panic = r.panic, !.ret = r.key]
    /\ UNCHANGED <<root, offered, conc>>

CallSave(v) ==
    LET r == Save(data, v) IN
    /\ data' = r.data
    /\ last' = [NoCall EXCEPT !.op = "Save", !.value = v,
                              !.val = Serialize(v),
                              !.rep = Repeats("Save", ZeroKey, Serialize(v), v),
                              !.panic = r.panic, !.ret = r.key]
    /\ UNCHANGED <<root, offered, conc>>

CallAdd(key, s) ==
    LET r == Add(data, key, s) IN
    /\ data' = r.data
    /\ last' = [NoCall EXCEPT !.op = "Add", !.key = key, !.val = s,
                              !.rep = Repeats("Add", key, s, NoValue),
                              !.panic = r.panic, !.err = r.err]
    /\ UNCHANGED <<root, offered, conc>>

CallHas(key) ==
    /\ last' = [NoCall EXCEPT !.op = "Has", !.key = key,
                              !.rep = Repeats("Has", key, NilSlice, NoValue),
                              !.ok = Has(data, key)]
    /\ UNCHANGED <<data, root, offered, conc>>

CallGet(key) ==
    LET r == Get(data, key) IN
    /\ last' = [NoCall EXCEPT !.op = "Get", !.key = key,
                              !.rep = Repeats("Get", key, NilSlice, NoValue),
                              !.out = r.v, !.ok = r.ok]
    /\ UNCHANGED <<data, root, offered, conc>>

\* sync.RWMutex: the goroutines holding it as writers and as readers
FreeLock == [writers |-> {}, readers |-> {}]

Threads == 1..NThreads

\* a goroutine that has made no call
Idle ==
    [op     |-> "none",   \* the method it calls
     pc     |-> "idle",   \* the statement it is about to execute
     key    |-> ZeroKey,  \* the key argument, or the key Update computed
     val    |-> NilSlice, \* the byte-slice argument
     err    |-> "",       \* the error Add returned
     total  |-> 0,        \* s.Total of Statistic
     memory |-> 0,        \* s.Memory of Statistic
     absent |-> FALSE,    \* the key of Add was absent when the call began
     raced  |-> FALSE,    \* Statistic read the table while a writer held
                          \* the lock
     snaps  |-> {}]       \* the <<count, bytes>> of every table that
                          \* existed during the Statistic call

\* no goroutine runs: the mutex is free
NoThreads ==
    /\ lock = FreeLock
    /\ threads = [t \in Threads |-> Idle]

Init ==
    /\ data = <<>>
    /\ root = NilRoot
    /\ last = NoCall
    /\ offered = {}
    /\ NoThreads

Next ==
    \/ \E s \in StorePayloads : CallUpdate(s)
    \/ \E v \in SaveValues : CallSave(v)
    \/ \E key \in StoreKeys, s \in StorePayloads : CallAdd(key, s)
    \/ \E key \in StoreKeys : CallHas(key)
    \/ \E key \in StoreKeys : CallGet(key)

Spec == Init /\ [][Next]_vars

-----------------------------------------------------------------------------
(* The concurrent specification: NThreads goroutines, each making one call *)
(* of Update, Add or Statistic on the same DB.  A step is one statement of *)
(* a method that touches the mutex or the table; pc names the statement a  *)
(* goroutine executes next.  A panic ends the call of its goroutine (the   *)
(* caller recovers); the others go on.  The fatal error that the Go        *)
(* runtime raises when it finds a map iterated while it is written ends    *)
(* the program.                                                            *)

\* len(d.data)
Total(d) == Cardinality(DOMAIN d)

RECURSIVE SumLen(_, _)
SumLen(d, K) ==
    IF K = {} THEN 0
    ELSE LET k == CHOOSE x \in K : TRUE
         IN  Len(d[k]) + SumLen(d, K \ {k})

\* the sum of len(v) over the table
Memory(d) == SumLen(d, DOMAIN d)

\* the tables the calls start from: entries stored by earlier Update calls
ConcTables ==
    {[k \in K |-> Universe[k]] : K \in SUBSET (1..MaxPayload)}

\* the runtime has ended the program
Crashed == \E t \in Threads : threads[t].pc = "fatal"

\* goroutine t is in a call of op and about to execute pc
At(t, op, pc) ==
    ~Crashed /\ threads[t].op = op /\ threads[t].pc = pc

\* the goroutines after t has moved to pc
Goto(t, pc) == [threads EXCEPT ![t].pc = pc]

\* every Statistic call that is running has table d within its duration
Observe(ths, d) ==
    [t \in Threads |->
        IF ths[t].op = "Statistic" /\ ths[t].pc \notin {"done", "fatal"}
        THEN [ths[t] EXCEPT !.snaps = @ \cup {<<Total(d), Memory(d)>>}]
        ELSE ths[t]]

\* a writer holds the mutex
WriteLocked == lock.writers # {}

\* a mutant of StartUpdate: the mutex is taken before the arguments are
\* tested, and the panic leaves it held
StartUpdatePanicsLocked(t, s) ==
    /\ ~Crashed /\ threads[t].pc = "idle"
    /\ IF createKey(s) = ZeroKey \/ s.isNil
       THEN /\ lock = FreeLock
            /\ lock' = [lock EXCEPT !.writers = {t}]
            /\ threads' = [threads EXCEPT ![t] =
                             [Idle EXCEPT !.op = "Update", !.val = s,
                                          !.pc = "panic"]]
       ELSE /\ lock' = lock
            /\ threads' = [threads EXCEPT ![t] =
                             [Idle EXCEPT !.op = "Update", !.val = s,
                                          !.key = createKey(s),
                                          !.pc = "Lock"]]
    /\ UNCHANGED <<data, root, last, offered>>

\* DB.Update, lines 50-53: the key is computed and the arguments tested
StartUpdate(t, s) ==
    /\ ~Crashed /\ threads[t].pc = "idle"
    /\ threads' = [threads EXCEPT ![t] =
                     IF createKey(s) = ZeroKey \/ s.isNil
                     THEN [Idle EXCEPT !.op = "Update", !.val = s,
                                       !.pc = "panic"]
                     ELSE [Idle EXCEPT !.op = "Update", !.val = s,
                                       !.key = createKey(s),
                                       !.pc = "Lock"]]
    /\ UNCHANGED <<data, root, last, offered, lock>>

\* DB.Update, line 54: d.Lock()
UpdateLock(t) ==
    /\ At(t, "Update", "Lock")
    /\ lock = FreeLock
    /\ lock' = [lock EXCEPT !.writers = {t}]
    /\ threads' = Goto(t, "write")
    /\ UNCHANGED <<data, root, last, offered>>

\* DB.Update, line 55: d.data[key] = data
UpdateWrite(t) ==
    /\ At(t, "Update", "write")
    /\ data' = put(data, threads[t].key, threads[t].val.b)
    /\ threads' = Observe(Goto(t, "Unlock"), data')
    /\ UNCHANGED <<root, last, offered, lock>>

\* DB.Update, lines 56-57: d.Unlock(); return key
UpdateUnlock(t) ==
    /\ At(t, "Update", "Unlock")
    /\ lock' = [lock EXCEPT !.writers = @ \ {t}]
    /\ threads' = Goto(t, "done")
    /\ UNCHANGED <<data, root, last, offered>>

\* DB.Add, lines 61-63: the arguments are tested
StartAdd(t, key, s) ==
    /\ ~Crashed /\ threads[t].pc = "idle"
    /\ threads' = [threads EXCEPT ![t] =
                     [Idle EXCEPT !.op = "Add", !.key = key, !.val = s,
                                  !.absent = ~has(data, key),
                                  !.pc = IF key = ZeroKey \/ s.isNil
                                         THEN "panic" ELSE "Lock"]]
    /\ UNCHANGED <<data, root, last, offered, lock>>

\* a mutant of AddLock: the goroutine goes on without waiting for the
\* mutex to be free
AddLockNoWait(t) ==
    /\ At(t, "Add", "Lock")
    /\ lock' = [lock EXCEPT !.writers = @ \cup {t}]
    /\ threads' = Goto(t, "has")
    /\ UNCHANGED <<data, root, last, offered>>

\* DB.Add, lines 65-66: d.Lock(); defer d.Unlock()
AddLock(t) ==
    /\ At(t, "Add", "Lock")
    /\ lock = FreeLock
    /\ lock' = [lock EXCEPT !.writers = {t}]
    /\ threads' = Goto(t, "has")
    /\ UNCHANGED <<data, root, last, offered>>

\* DB.Add, lines 68-70: if d.has(key) { return error }
AddHas(t) ==
    /\ At(t, "Add", "has")
    /\ threads' = IF has(data, threads[t].key)
                  THEN [threads EXCEPT ![t].err = "key already present",
                                       ![t].pc = "Unlock"]
                  ELSE Goto(t, "write")
    /\ UNCHANGED <<data, root, last, offered, lock>>

\* DB.Add, line 71: d.data[key] = value
AddWrite(t) ==
    /\ At(t, "Add", "write")
    /\ data' = put(data, threads[t].key, threads[t].val.b)
    /\ threads' = Observe(Goto(t, "Unlock"), data')
    /\ UNCHANGED <<root, last, offered, lock>>

\* DB.Add, the deferred d.Unlock() on return
AddUnlock(t) ==
    /\ At(t, "Add", "Unlock")
    /\ lock' = [lock EXCEPT !.writers = @ \ {t}]
    /\ threads' = Goto(t, "done")
    /\ UNCHANGED <<data, root, last, offered>>

\* DB.Statistic is called
StartStatistic(t) ==
    /\ ~Crashed /\ threads[t].pc = "idle"
    /\ threads' = Observe([threads EXCEPT ![t] =
                              [Idle EXCEPT !.op = "Statistic",
                                           !.pc = "RLock"]], data)
    /\ UNCHANGED <<data, root, last, offered, lock>>

\* DB.Statistic, line 106: d.RLock()
StatRLock(t) ==
    /\ At(t, "Statistic", "RLock")
    /\ ~WriteLocked
    /\ lock' = [lock EXCEPT !.readers = @ \cup {t}]
    /\ threads' = Goto(t, "RUnlock")
    /\ UNCHANGED <<data, root, last, offered>>

\* DB.Statistic, line 107: d.RUnlock(), at once and not deferred
StatRUnlock(t) ==
    /\ At(t, "Statistic", "RUnlock")
    /\ lock' = [lock EXCEPT !.readers = @ \ {t}]
    /\ threads' = Goto(t, "len")
    /\ UNCHANGED <<data, root, last, offered>>

\* DB.Statistic, line 108: s.Total = len(d.data), without the mutex
StatLen(t) ==
    /\ At(t, "Statistic", "len")
    /\ threads' = [threads EXCEPT ![t].total = Total(data),
                                  ![t].raced = @ \/ WriteLocked,
                                  ![t].pc = "range"]
    /\ UNCHANGED <<data, root, last, offered, lock>>

\* DB.Statistic, lines 109-112: the loop over d.data, without the mutex.
\* The loop runs here without a step of another goroutine inside it.
StatRange(t) ==
    /\ At(t, "Statistic", "range")
    /\ threads' = [threads EXCEPT ![t].memory = Memory(data),
                                  ![t].raced = @ \/ WriteLocked,
                                  ![t].pc = "done"]
    /\ UNCHANGED <<data, root, last, offered, lock>>

\* DB.Statistic, lines 109-111, while another goroutine executes line 55
\* or 71: the runtime finds the map written during the iteration and ends
\* the program with a fatal error
StatFatal(t) ==
    /\ At(t, "Statistic", "range")
    /\ \E u \in Threads : threads[u].pc = "write"
    /\ threads' = Goto(t, "fatal")
    /\ UNCHANGED <<data, root, last, offered, lock>>

InitConc ==
    /\ data \in ConcTables
    /\ root = NilRoot
    /\ last = NoCall
    /\ offered = {}
    /\ NoThreads

NextConc ==
    \E t \in Threads :
        \/ \E s \in StorePayloads : StartUpdate(t, s)
        \/ UpdateLock(t)
        \/ UpdateWrite(t)
        \/ UpdateUnlock(t)
        \/ \E key \in StoreKeys, s \in StorePayloads : StartAdd(t, key, s)
        \/ AddLock(t)
        \/ AddHas(t)
        \/ AddWrite(t)
        \/ AddUnlock(t)
        \/ StartStatistic(t)
        \/ StatRLock(t)
        \/ StatRUnlock(t)
        \/ StatLen(t)
        \/ StatRange(t)
        \/ StatFatal(t)

SpecConc == InitConc /\ [][NextConc]_vars

-----------------------------------------------------------------------------
(* package skyobject: the held root of a Container.                        *)
(*                                                                         *)
(* A Root is the record [Time, Schema, Root, registry]; the registry, a Go *)
(* map from schema names to schema keys, is a set of <<name, key>> pairs   *)
(* with one pair per name.  A string (a schema name, a tag) is the         *)
(* sequence of its words and separators, so "href,schema=A" is             *)
(* <<"href", ",", "schema", "=", "A">>.                                    *)

\* the schema names that have a code in the wire encoding of a registry
Names == << <<"A">>, <<"B">> >>

NameCode(name) == CHOOSE c \in 1..Len(Names) : Names[c] = name

\* The wire encoding of a root: schema key, object key, timestamp, the
\* number of registry entries, then a name code and a key per entry.
RECURSIVE encodeRegistry(_)
encodeRegistry(reg) ==
    IF reg = {} THEN <<>>
    ELSE LET p == CHOOSE q \in reg : TRUE IN
         <<NameCode(p[1]), p[2]>> \o encodeRegistry(reg \ {p})

encodeRoot(r) ==
    <<r.Schema, r.Root, r.Time, Cardinality(r.registry)>>
        \o encodeRegistry(r.registry)

RECURSIVE decodeRegistry(_)
decodeRegistry(b) ==
    IF b = <<>> THEN {}
    ELSE {<<Names[b[1]], b[2]>>} \cup decodeRegistry(SubSeq(b, 3, Len(b)))

\* decodeRoot: the root the bytes encode, or an error when the bytes are
\* cut short, run long, or name a schema with an unknown code or twice
decodeRoot(b) ==
    LET wellFormed ==
            /\ Len(b) >= 4
            /\ Len(b) = 4 + 2 * b[4]
            /\ \A i \in 1..b[4] : b[3 + 2 * i] \in 1..Len(Names)
            /\ \A i, j \in 1..b[4] :
                   b[3 + 2 * i] = b[3 + 2 * j] => i = j
    IN  IF wellFormed
        THEN [root |-> [Time |-> b[3], Schema |-> b[1], Root |-> b[2],
                        registry |-> decodeRegistry(SubSeq(b, 5, Len(b)))],
              err  |-> ""]
        ELSE [root |-> NilRoot, err |-> "decode error"]

\* a mutant of SetRoot: a root with an equal timestamp replaces too
SetRootAcceptsEqual(r, cand) ==
    IF cand = NilRoot
    THEN [panic |-> TRUE, root |-> r, ok |-> FALSE]
    ELSE IF r = NilRoot
         THEN [panic |-> FALSE, root |-> cand, ok |-> TRUE]
         ELSE IF r.Time <= cand.Time
              THEN [panic |-> FALSE, root |-> cand, ok |-> TRUE]
              ELSE [panic |-> FALSE, root |-> r, ok |-> FALSE]

\* a mutant of SetRoot: the last root offered always replaces
SetRootLastWins(r, cand) ==
    IF cand = NilRoot
    THEN [panic |-> TRUE, root |-> r, ok |-> FALSE]
    ELSE [panic |-> FALSE, root |-> cand, ok |-> TRUE]

\* Container.SetRoot on the held root r
SetRoot(r, cand) ==
    IF cand = NilRoot
    THEN [panic |-> TRUE, root |-> r, ok |-> FALSE]
    ELSE IF r = NilRoot
         THEN [panic |-> FALSE, root |-> cand, ok |-> TRUE]
         ELSE IF r.Time < cand.Time
              THEN [panic |-> FALSE, root |-> cand, ok |-> TRUE]
              ELSE [panic |-> FALSE, root |-> r, ok |-> FALSE]

\* a mutant of SetEncodedRoot: the decoded root is stored without SetRoot
SetEncodedRootNoCheck(r, b) ==
    LET d == decodeRoot(b) IN
    IF d.err # ""
    THEN [panic |-> FALSE, root |-> r, ok |-> FALSE, err |-> d.err,
          cand |-> NilRoot]
    ELSE [panic |-> FALSE, root |-> d.root, ok |-> TRUE, err |-> "",
          cand |-> d.root]

\* Container.SetEncodedRoot on the held root r
SetEncodedRoot(r, b) ==
    LET d == decodeRoot(b) IN
    IF d.err # ""
    THEN [panic |-> FALSE, root |-> r, ok |-> FALSE, err |-> d.err,
          cand |-> NilRoot]
    ELSE LET s == SetRoot(r, d.root) IN
         [panic |-> s.panic, root |-> s.root, ok |-> s.ok, err |-> "",
          cand |-> d.root]

-----------------------------------------------------------------------------
(* The root specification: any sequence of SetRoot and SetEncodedRoot      *)
(* calls on one Container.                                                 *)

RootCands ==
    [Time : 0..MaxTime, Schema : {1, 2}, Root : {1},
     registry : {{}, {<< <<"A">>, 1 >>}}]

\* the encodings of the candidates, each also with its last byte cut off
\* and with one byte too many, and the empty input
EncodedInputs ==
    {<<>>} \cup UNION { {encodeRoot(r),
                          SubSeq(encodeRoot(r), 1, Len(encodeRoot(r)) - 1),
                          Append(encodeRoot(r), 1)} : r \in RootCands }

Offer(cand) == IF cand = NilRoot THEN offered ELSE offered \cup {cand.Time}

CallSetRoot(cand) ==
    LET s == SetRoot(root, cand) IN
    /\ root' = s.root
    /\ offered' = Offer(cand)
    /\ last' = [NoCall EXCEPT !.op = "SetRoot", !.cand = cand,
                              !.panic = s.panic, !.ok = s.ok]
    /\ UNCHANGED <<data, conc>>

CallSetEncodedRoot(b) ==
    LET s == SetEncodedRoot(root, b) IN
    /\ root' = s.root
    /\ offered' = Offer(s.cand)
    /\ last' = [NoCall EXCEPT !.op = "SetEncodedRoot", !.val = Slice(b),
                              !.cand = s.cand, !.panic = s.panic,
                              !.ok = s.ok, !.err = s.err]
    /\ UNCHANGED <<data, conc>>

NextRoot ==
    \/ \E cand \in RootCands \cup {NilRoot} : CallSetRoot(cand)
    \/ \E b \in EncodedInputs : CallSetEncodedRoot(b)

SpecRoot == Init /\ [][NextRoot]_vars

-----------------------------------------------------------------------------
(* package skyobject: schemas, tags and the codec calls of Container.want. *)

hrefTypeName == "cipher.SHA256"
hrefArrayTypeName == "[]cipher.SHA256"
dynamicHrefTypeName == "skyobject.DynamicHref"

\* The struct fields a schema can hold, by the byte that encodes them: the
\* declared type and the value of the skyobject tag.
FieldTable ==
    << [Type |-> hrefArrayTypeName,
        Tag  |-> <<"href", ",", "schema", "=", "A">>],
       [Type |-> hrefTypeName,
        Tag  |-> <<"href", ",", "schema", "=", "A">>],
       [Type |-> dynamicHrefTypeName, Tag |-> <<"href">>],
       [Type |-> hrefTypeName, Tag |-> <<"href">>],
       [Type |-> "int8", Tag |-> <<"href", ",", "schema", "=", "A">>],
       [Type |-> "int8", Tag |-> <<>>],
       [Type |-> hrefTypeName,
        Tag  |-> <<"href", ",", "schema", "=", "A", "=", "B">>] >>

\* encoder.DeserializeRaw(schd, &s): the fields of the schema, named by
\* their position, or an error when a byte encodes no field
DeserializeRaw(schd) ==
    IF \A i \in 1..Len(schd) : schd[i] \in 1..Len(FieldTable)
    THEN [Fields |-> [i \in 1..Len(schd) |->
                         [Name |-> i, Type |-> FieldTable[schd[i]].Type,
                          Tag  |-> FieldTable[schd[i]].Tag]],
          err |-> ""]
    ELSE [Fields |-> <<>>, err |-> "decode error"]

\* skyobjectTag: the value of the skyobject key of the field's tag
skyobjectTag(sf) == sf.Tag

\* strings.Contains(tag, "href") for the word "href"
Contains(tag, word) == \E i \in 1..Len(tag) : tag[i] = word

\* strings.Split(s, sep): a string without sep is its own single part
RECURSIVE Split(_, _)
Split(s, sep) ==
    IF \E i \in 1..Len(s) : s[i] = sep
    THEN LET i == CHOOSE j \in 1..Len(s) :
                      s[j] = sep /\ \A k \in 1..(j - 1) : s[k] # sep
         IN  <<SubSeq(s, 1, i - 1)>> \o Split(SubSeq(s, i + 1, Len(s)), sep)
    ELSE <<s>>

\* strings.HasPrefix(p, "schema=")
HasSchemaPrefix(p) == Len(p) >= 2 /\ p[1] = "schema" /\ p[2] = "="

\* the size in bytes of a field of the given type that starts after the
\* first off bytes of objd, or -1 when the bytes run out
FieldSize(objd, off, type) ==
    LET n == IF type = hrefArrayTypeName /\ off < Len(objd)
             THEN 1 + objd[off + 1]
             ELSE IF type = hrefArrayTypeName THEN Len(objd) + 1
             ELSE IF type = dynamicHrefTypeName THEN 2 ELSE 1
    IN  IF off + n <= Len(objd) THEN n ELSE -1

\* the number of bytes before the field with the given name, or -1
RECURSIVE FieldOffset(_, _, _)
FieldOffset(objd, fields, name) ==
    IF name = 1 THEN 0
    ELSE LET off == FieldOffset(objd, fields, name - 1) IN
         IF off < 0 THEN -1
         ELSE LET n == FieldSize(objd, off, fields[name - 1].Type) IN
              IF n < 0 THEN -1 ELSE off + n

\* encoder.DeserializeField(objd, s.Fields, name, &v): the bytes of the
\* named field, read as a value of its declared type.  ref is the key of a
\* plain reference, refs the keys of an array, dh a dynamic reference.
DeserializeField(objd, fields, name) ==
    LET off   == FieldOffset(objd, fields, name)
        n     == IF off < 0 THEN -1
                 ELSE FieldSize(objd, off, fields[name].Type)
        bytes == SubSeq(objd, off + 1, off + n)
        none  == [Schema |-> ZeroKey, ObjKey |-> ZeroKey]
    IN  IF n < 0
        THEN [ref |-> ZeroKey, refs |-> <<>>, dh |-> none,
              err |-> "decode error"]
        ELSE [ref  |-> IF fields[name].Type = hrefTypeName
                       THEN bytes[1] ELSE ZeroKey,
              refs |-> IF fields[name].Type = hrefArrayTypeName
                       THEN SubSeq(bytes, 2, n) ELSE <<>>,
              dh   |-> IF fields[name].Type = dynamicHrefTypeName
                       THEN [Schema |-> bytes[1], ObjKey |-> bytes[2]]
                       ELSE none,
              err  |-> ""]

\* tagSchemaName: the name after "schema=" in the first part of the tag
\* that starts with it
tagSchemaName(tag) ==
    LET parts == Split(tag, ",")
        hits  == {i \in 1..Len(parts) : HasSchemaPrefix(parts[i])}
    IN  IF hits = {}
        THEN [s |-> <<>>, err |-> "missing schema name"]
        ELSE LET p  == parts[CHOOSE i \in hits : \A j \in hits : i <= j]
                 ss == Split(p, "=")
             IN  IF Len(ss) # 2
                 THEN [s |-> <<>>, err |-> "invalid schema tag"]
                 ELSE [s |-> ss[2], err |-> ""]

\* a mutant of schemaByTag: the test of the registry lookup is inverted
schemaByTagInverted(r, tag) ==
    LET n == tagSchemaName(tag) IN
    IF n.err # "" THEN [s |-> ZeroKey, err |-> n.err]
    ELSE IF r = NilRoot THEN [s |-> ZeroKey, err |-> "missing root object"]
    ELSE IF \E p \in r.registry : p[1] = n.s
         THEN [s   |-> (CHOOSE p \in r.registry : p[1] = n.s)[2],
               err |-> "unregistered schema"]
         ELSE [s |-> ZeroKey, err |-> ""]

\* Container.schemaByTag for the held root r
schemaByTag(r, tag) ==
    LET n == tagSchemaName(tag) IN
    IF n.err # "" THEN [s |-> ZeroKey, err |-> n.err]
    ELSE IF r = NilRoot THEN [s |-> ZeroKey, err |-> "missing root object"]
    ELSE IF \E p \in r.registry : p[1] = n.s
         THEN [s |-> (CHOOSE p \in r.registry : p[1] = n.s)[2], err |-> ""]
         ELSE [s |-> ZeroKey, err |-> "unregistered schema"]

-----------------------------------------------------------------------------
(* The tag specification: schemaByTag called with any tag on a Container   *)
(* whose root is set by SetRoot calls.                                     *)

Tags ==
    {<<>>,                                          \* no tag
     <<"href">>,                                    \* href
     <<"href", ",", "schema">>,                     \* href,schema
     <<"href", ",", "schema", "=">>,                \* href,schema=
     <<"href", ",", "schema", "=", "A">>,           \* href,schema=A
     <<"schema", "=", "B", ",", "href">>,           \* schema=B,href
     <<"href", ",", "schema", "=", "A", "=", "B">>, \* href,schema=A=B
     <<"schema", "=", "=", "A">>,                   \* schema==A
     <<"schema", "=", "A", ",", "schema", "=", "B">>,
     <<"schema", "=", "B", ",", "schema", "=", "A">>,
     <<"schema", "=", "A", "=", ",", "schema", "=", "A">>}

CallSchemaByTag(tag) ==
    LET s == schemaByTag(root, tag) IN
    /\ last' = [NoCall EXCEPT !.op = "schemaByTag", !.tag = tag,
                              !.ret = s.s, !.err = s.err]
    /\ UNCHANGED <<data, root, offered, conc>>

NextTag ==
    \/ \E cand \in RootCands : CallSetRoot(cand)
    \/ \E tag \in Tags : CallSchemaByTag(tag)

SpecTag == Init /\ [][NextTag]_vars

-----------------------------------------------------------------------------
(* Container.Want.  A want map is [isNil, keys]; a result is the map and   *)
(* the error, "" for nil.                                                  *)

WantMap(keys) == [isNil |-> FALSE, keys |-> keys]

\* a mutant of mergeMaps: the merge is lost
mergeMapsDrops(dst, appention) == dst

\* mergeMaps(dst, appention)
mergeMaps(dst, appention) == dst \cup appention

\* a mutant of addMissing: it adds the keys without asking the store
addMissingAlways(d, w, keys) == w \cup keys

\* Container.addMissing(w, keys...)
addMissing(d, w, keys) == w \cup {key \in keys : ~Get(d, key).ok}

\* The Go runtime ends the program ("stack overflow") when want calls
\* itself without end.  That happens exactly when a call want(schk, objk)
\* is reached from inside the same call: the table and the root do not
\* change, so the inner call repeats the outer one.  path holds the calls
\* that are open.
StackOverflow == [want |-> NilWant, err |-> "stack overflow"]

RECURSIVE want(_, _, _, _, _)
RECURSIVE wantFields(_, _, _, _, _, _, _)
RECURSIVE wantRefs(_, _, _, _, _, _, _)

\* a mutant of wantRefs: the loop leaves after its first element
wantRefsFirstOnly(d, r, schk, refs, i, acc, path) ==
    IF i > Len(refs) THEN [want |-> WantMap(acc), err |-> ""]
    ELSE LET w == want(d, r, schk, refs[i], path) IN
         IF w.err # "" THEN [want |-> NilWant, err |-> w.err]
         ELSE [want |-> WantMap(mergeMaps(acc, w.want.keys)), err |-> ""]

\* the loop over refs of the array case, from the i-th element on, acc
\* being the map built so far; the error of the first element that fails
wantRefs(d, r, schk, refs, i, acc, path) ==
    IF i > Len(refs) THEN [want |-> WantMap(acc), err |-> ""]
    ELSE LET w == want(d, r, schk, refs[i], path) IN
         IF w.err # "" THEN [want |-> NilWant, err |-> w.err]
         ELSE wantRefs(d, r, schk, refs, i + 1,
                       mergeMaps(acc, w.want.keys), path)

\* the loop over s.Fields from the i-th field on, acc being the map built
\* so far; an error leaves through the Error label, which drops the map
wantFields(d, r, fields, objd, i, acc, path) ==
    IF i > Len(fields) THEN [want |-> WantMap(acc), err |-> ""]
    ELSE
    LET sf   == fields[i]
        tag  == skyobjectTag(sf)
        f    == DeserializeField(objd, fields, sf.Name)
        sch  == schemaByTag(r, tag)
        fail(e) == [want |-> NilWant, err |-> e]
        next(w) == wantFields(d, r, fields, objd, i + 1,
                              mergeMaps(acc, w.want.keys), path)
    IN  IF ~Contains(tag, "href")
        THEN wantFields(d, r, fields, objd, i + 1, acc, path)
        ELSE CASE sf.Type = hrefTypeName ->
                    IF f.err # "" THEN fail(f.err)
                    ELSE IF sch.err # "" THEN fail(sch.err)
                    ELSE LET w == want(d, r, sch.s, f.ref, path) IN
                         IF w.err # "" THEN fail(w.err) ELSE next(w)
               [] sf.Type = hrefArrayTypeName ->
                    IF f.err # "" THEN fail(f.err)
                    ELSE IF sch.err # "" THEN fail(sch.err)
                    ELSE LET w == wantRefs(d, r, sch.s, f.refs, 1, acc, path)
                         IN  IF w.err # "" THEN fail(w.err)
                             ELSE wantFields(d, r, fields, objd, i + 1,
                                             w.want.keys, path)
               [] sf.Type = dynamicHrefTypeName ->
                    IF f.err # "" THEN fail(f.err)
                    ELSE LET w == want(d, r, f.dh.Schema, f.dh.ObjKey, path)
                         IN  IF w.err # "" THEN fail(w.err) ELSE next(w)
               [] OTHER -> fail("unexpected href tag")

\* a mutant of want: the test for the object is inverted, so an object
\* that is present is reported and one that is absent is decoded
wantObjectTestInverted(d, r, schk, objk, path) ==
    IF <<schk, objk>> \in path THEN StackOverflow
    ELSE
    LET sch == Get(d, schk)
        obj == Get(d, objk)
        s   == DeserializeRaw(sch.v.b)
    IN  IF ~sch.ok
        THEN [want |-> WantMap(addMissing(d, {schk}, {objk})), err |-> ""]
        ELSE IF obj.ok
        THEN [want |-> WantMap({objk}), err |-> ""]
        ELSE IF s.err # ""
        THEN [want |-> WantMap({}), err |-> s.err]
        ELSE wantFields(d, r, s.Fields, obj.v.b, 1, {},
                        path \cup {<<schk, objk>>})

\* a mutant of want: a call that is reached from inside itself returns
\* the empty map, as if want kept track of the nodes it has visited
wantDetectsCycle(d, r, schk, objk, path) ==
    IF <<schk, objk>> \in path THEN [want |-> WantMap({}), err |-> ""]
    ELSE
    LET sch == Get(d, schk)
        obj == Get(d, objk)
        s   == DeserializeRaw(sch.v.b)
    IN  IF ~sch.ok
        THEN [want |-> WantMap(addMissing(d, {schk}, {objk})), err |-> ""]
        ELSE IF ~obj.ok
        THEN [want |-> WantMap({objk}), err |-> ""]
        ELSE IF s.err # ""
        THEN [want |-> WantMap({}), err |-> s.err]
        ELSE wantFields(d, r, s.Fields, obj.v.b, 1, {},
                        path \cup {<<schk, objk>>})

\* Container.want(schk, objk)
want(d, r, schk, objk, path) ==
    IF <<schk, objk>> \in path THEN StackOverflow
    ELSE
    LET sch == Get(d, schk)
        obj == Get(d, objk)
        s   == DeserializeRaw(sch.v.b)
    IN  IF ~sch.ok
        THEN [want |-> WantMap(addMissing(d, {schk}, {objk})), err |-> ""]
        ELSE IF ~obj.ok
        THEN [want |-> WantMap({objk}), err |-> ""]
        ELSE IF s.err # ""
        THEN [want |-> WantMap({}), err |-> s.err]
        ELSE wantFields(d, r, s.Fields, obj.v.b, 1, {},
                        path \cup {<<schk, objk>>})

\* Container.Want
Want(d, r) ==
    IF r = NilRoot THEN [want |-> NilWant, err |-> ""]
    ELSE want(d, r, r.Schema, r.Root, {})

-----------------------------------------------------------------------------
(* The resolver specification: a Container whose root was set once, over a *)
(* DB that receives the entries of Universe one by one, each under its own *)
(* hash, as a node that fetches what Want reports does.                    *)

RegA(key) == {<< <<"A">>, key >>}

WantRoot(schema, object, registry) ==
    [Time |-> 1, Schema |-> schema, Root |-> object, registry |-> registry]

WantRoots ==
    {WantRoot(1, 1, {}),       \* no fields
     WantRoot(2, 2, RegA(1)),  \* plain reference to an object without fields
     WantRoot(2, 2, RegA(2)),  \* plain reference to itself
     WantRoot(2, 2, {}),       \* plain reference, schema not registered
     WantRoot(2, 3, RegA(1)),  \* plain reference to 1
     WantRoot(2, 5, RegA(1)),  \* plain reference that is nil
     WantRoot(3, 5, RegA(1)),  \* empty array
     WantRoot(3, 6, RegA(1)),  \* array of two objects without fields
     WantRoot(3, 6, RegA(2)),  \* array of two objects with a reference each
     WantRoot(3, 7, RegA(1)),  \* array of one
     WantRoot(3, 3, RegA(1)),  \* array cut short
     WantRoot(4, 6, RegA(1)),  \* dynamic reference, then a plain one
     WantRoot(4, 6, {}),       \* the same, schema not registered
     WantRoot(4, 7, RegA(1)),  \* dynamic reference to an object without fields
     WantRoot(5, 1, {}),       \* the schema bytes do not decode
     WantRoot(6, 6, RegA(1)),  \* plain, dynamic, then a mistyped reference
     WantRoot(7, 7, RegA(1)),  \* array, then a field that is no reference
     WantRoot(8, 2, RegA(1)),  \* malformed tag
     WantRoot(9, 2, RegA(1))}  \* tag without a schema name

\* a mutant of CallWant: the call leaves an empty entry in the table for
\* every key it reports
CallWantMarksMissing ==
    LET w == Want(data, root)
        marked == w.want.keys \ ({ZeroKey} \cup DOMAIN data)
    IN
    /\ last' = [NoCall EXCEPT !.op = "Want",
                              !.rep = Repeats("Want", ZeroKey, NilSlice, NoValue),
                              !.panic = (w.err = StackOverflow.err),
                              !.want = w.want, !.err = w.err]
    /\ data' = [k \in DOMAIN data \cup marked |->
                   IF k \in DOMAIN data THEN data[k] ELSE <<>>]
    /\ UNCHANGED <<root, offered, conc>>

CallWant ==
    LET w == Want(data, root) IN
    /\ last' = [NoCall EXCEPT !.op = "Want",
                              !.rep = Repeats("Want", ZeroKey, NilSlice, NoValue),
                              !.panic = (w.err = StackOverflow.err),
                              !.want = w.want, !.err = w.err]
    /\ UNCHANGED <<data, root, offered, conc>>

InitWant ==
    /\ data = <<>>
    /\ root \in WantRoots \cup {NilRoot}
    /\ offered = IF root = NilRoot THEN {} ELSE {root.Time}
    /\ last = NoCall
    /\ NoThreads

\* the entries a node can fetch: every byte string under its own hash
Fetched == [key \in Keys |-> Slice(Universe[key])]

NextWant ==
    \/ \E key \in Keys : CallAdd(key, Fetched[key])
    \/ CallWant

SpecWant == InitWant /\ [][NextWant]_vars

-----------------------------------------------------------------------------
(* Claims about the store, checked under Spec.                             *)

\* C1: every stored entry (k, p) satisfies k = Hash(p), whatever sequence
\* of Save, Update and Add calls with non-zero keys and non-nil payloads
\* built the table.
C1_KeyIntegrity ==
    \A k \in DOMAIN data : k = SumSHA256(data[k])

\* C2: Update(b) with a non-nil b, and Save of a value that serializes to
\* b, returns Hash(b); right after the call Has(Hash(b)) is true and
\* Get(Hash(b)) returns (b, found).
C2_SaveUpdateRoundTrip ==
    (last.op \in {"Update", "Save"} /\ ~last.val.isNil) =>
        LET h == SumSHA256(last.val.b) IN
        /\ ~last.panic
        /\ last.ret = h
        /\ Has(data, h)
        /\ Get(data, h) = [v |-> last.val, ok |-> TRUE]

\* C2 witness: Update returned after it replaced a payload that Add had
\* stored under the same key.
C2_Witness ==
    /\ last.op = "Update" /\ ~last.panic
    /\ last.val = Slice(<<2>>)
    /\ Cardinality(DOMAIN data) = MaxKey

\* C3: a second Update(b) right after Update(b) leaves the table as the
\* first call left it and returns the same hash.
C3_UpdateIdempotent ==
    [][(last'.op = "Update" /\ last'.rep /\ ~last'.panic) =>
           (data' = data /\ last'.ret = last.ret)]_vars

\* C3 witness: the second of two equal Update calls has returned, on a
\* table that holds other entries too.
C3_Witness ==
    /\ last.op = "Update" /\ last.rep /\ ~last.panic
    /\ last.val = Slice(<<2>>)
    /\ Cardinality(DOMAIN data) > 1

\* C4: Add(k, b) on a table that holds k returns the already-present error
\* and leaves the whole table unchanged; on a table without k it returns
\* no error, Get(k) then returns (b, found) and every other entry is as it
\* was.
C4_AddInsertIfAbsent ==
    [][(last'.op = "Add" /\ ~last'.panic) =>
           IF has(data, last'.key)
           THEN last'.err = "key already present" /\ data' = data
           ELSE /\ last'.err = ""
                /\ Get(data', last'.key) = [v |-> last'.val, ok |-> TRUE]
                /\ DOMAIN data' = DOMAIN data \cup {last'.key}
                /\ \A k \in DOMAIN data : data'[k] = data[k]]_vars

\* C4 witness: Add was refused for a key whose stored payload differs from
\* the one offered.
C4_Witness ==
    /\ last.op = "Add" /\ last.err = "key already present"
    /\ data[last.key] # last.val.b

\* C5: once a key is present with payload p it stays present with payload
\* p in every later state.
C5_EntriesPersist ==
    [][\A k \in DOMAIN data : k \in DOMAIN data' /\ data'[k] = data[k]]_vars

-----------------------------------------------------------------------------
(* Claims about the held root, checked under SpecRoot.                     *)

Max(S) == CHOOSE m \in S : \A x \in S : x <= m

\* C6: SetRoot with a non-nil candidate does not panic; it replaces the
\* held root exactly when none is held or the candidate's timestamp is
\* strictly greater than the held one's; it returns true exactly when it
\* replaced, and when it returns false the held root is unchanged.
C6_RootAcceptance ==
    [][(last'.op = "SetRoot" /\ last'.cand # NilRoot) =>
           LET accept == root = NilRoot \/ root.Time < last'.cand.Time IN
           /\ ~last'.panic
           /\ last'.ok = accept
           /\ accept => root' = last'.cand
           /\ ~accept => root' = root]_vars

\* C6 witness: SetRoot returned false for a root that differs from the
\* held one and carries the same timestamp.
C6_Witness ==
    /\ last.op = "SetRoot" /\ ~last.panic /\ ~last.ok
    /\ last.cand # root
    /\ last.cand.Time = root.Time

\* C7: after any sequence of SetRoot and SetEncodedRoot calls the held
\* root's timestamp is the maximum of the timestamps of all candidates
\* offered so far (no root is held only while none was offered), and the
\* held timestamp never decreases from one state to the next.
C7_RootMonotonic ==
    /\ [](IF offered = {} THEN root = NilRoot
          ELSE root # NilRoot /\ root.Time = Max(offered))
    /\ [][root # NilRoot =>
             (root' # NilRoot /\ root'.Time >= root.Time)]_vars

\* C7 witness: a root with the greatest timestamp is held after roots with
\* every smaller timestamp were offered, the last of them in encoded form
\* and without effect.
C7_Witness ==
    /\ offered = 0..MaxTime
    /\ root # NilRoot /\ root.Time = MaxTime
    /\ last.op = "SetEncodedRoot" /\ last.err = "" /\ ~last.ok
    /\ last.cand.Time < MaxTime

\* C8: SetEncodedRoot returns (false, error) and leaves the held root
\* unchanged when the bytes do not decode; when they decode to a root r it
\* returns no error, and its boolean result and the held root afterwards
\* are those of SetRoot(r).
C8_SetEncodedRoot ==
    [][last'.op = "SetEncodedRoot" =>
           LET d == decodeRoot(last'.val.b) IN
           IF d.err # ""
           THEN ~last'.ok /\ last'.err = d.err /\ root' = root
           ELSE LET accept == root = NilRoot \/ root.Time < d.root.Time IN
                /\ last'.err = ""
                /\ last'.ok = SetRoot(root, d.root).ok
                /\ root' = SetRoot(root, d.root).root
                /\ last'.ok = accept
                /\ root' = (IF accept THEN d.root ELSE root)]_vars

\* C8 witness: SetEncodedRoot decoded a root with the held root's
\* timestamp and returned false without an error.
C8_Witness ==
    /\ last.op = "SetEncodedRoot" /\ last.err = "" /\ ~last.ok
    /\ last.cand # NilRoot /\ last.cand # root
    /\ last.cand.Time = root.Time

-----------------------------------------------------------------------------
(* The reference graph under a root, as the store d shows it.  A node is a *)
(* pair <<schema key, object key>>; a node whose two entries are present   *)
(* has an edge to the target of every reference field of its object.       *)

Present(d, n) == n[1] \in DOMAIN d /\ n[2] \in DOMAIN d

\* the indices of the fields of a schema that are tagged as references
RefFields(fields) ==
    {i \in 1..Len(fields) : Contains(skyobjectTag(fields[i]), "href")}

\* every reference field of the present node n is a plain, an array or a
\* dynamic reference whose value decodes and, unless dynamic, whose tag
\* names a registered schema
WellFormedNode(d, r, n) ==
    LET s == DeserializeRaw(d[n[1]]) IN
    /\ s.err = ""
    /\ \A i \in RefFields(s.Fields) :
          /\ s.Fields[i].Type \in
                 {hrefTypeName, hrefArrayTypeName, dynamicHrefTypeName}
          /\ DeserializeField(d[n[2]], s.Fields, i).err = ""
          /\ s.Fields[i].Type # dynamicHrefTypeName =>
                 schemaByTag(r, skyobjectTag(s.Fields[i])).err = ""

\* the targets of the reference fields of the present, well-formed node n
Edges(d, r, n) ==
    LET s == DeserializeRaw(d[n[1]])
        f(i) == DeserializeField(d[n[2]], s.Fields, i)
        target(i) == schemaByTag(r, skyobjectTag(s.Fields[i])).s
    IN  UNION {
          CASE s.Fields[i].Type = hrefTypeName ->
                   {<<target(i), f(i).ref>>}
            [] s.Fields[i].Type = hrefArrayTypeName ->
                   {<<target(i), f(i).refs[j]>> : j \in 1..Len(f(i).refs)}
            [] OTHER ->
                   {<<f(i).dh.Schema, f(i).dh.ObjKey>>}
          : i \in RefFields(s.Fields) }

\* the nodes reached from the nodes of S, S included
RECURSIVE Closure(_, _, _)
Closure(d, r, S) ==
    LET more == UNION {Edges(d, r, n) :
                          n \in {m \in S : Present(d, m)
                                           /\ WellFormedNode(d, r, m)}}
    IN  IF more \subseteq S THEN S ELSE Closure(d, r, S \cup more)

WalkNodes(d, r) == Closure(d, r, {<<r.Schema, r.Root>>})

\* the schema and object keys of a set of nodes
Hashes(N) == {n[1] : n \in N} \cup {n[2] : n \in N}

\* the graph under r is well formed and has no cycle
AcyclicGraph(d, r) ==
    \A n \in WalkNodes(d, r) :
        Present(d, n) =>
            /\ WellFormedNode(d, r, n)
            /\ n \notin Closure(d, r, Edges(d, r, n))

\* every hash the walk reaches is in the store
FullyPresent(d, r) == Hashes(WalkNodes(d, r)) \subseteq DOMAIN d

\* the schemas that the tags of the plain and array fields of the graph
\* name, whether or not an element refers to them
TagSchemas(d, r) ==
    UNION { LET s == DeserializeRaw(d[n[1]]) IN
            {schemaByTag(r, skyobjectTag(s.Fields[i])).s :
                 i \in {j \in RefFields(s.Fields) :
                            s.Fields[j].Type # dynamicHrefTypeName}}
          : n \in {m \in WalkNodes(d, r) : Present(d, m)} }

-----------------------------------------------------------------------------
(* Claims about Want, checked under SpecWant.                              *)

\* C9: when the graph under the held root is well formed and acyclic and
\* every hash the walk reaches (root schema, root object, and the target
\* schema and object of every plain, array-element and dynamic reference)
\* is in the store, Want returns the empty set and no error.
C9_WantNothingMissing ==
    (/\ last.op = "Want" /\ root # NilRoot
     /\ AcyclicGraph(data, root) /\ FullyPresent(data, root)) =>
        (~last.panic /\ last.err = "" /\ last.want = WantMap({}))

\* C9 witness: Want returned for a fully present graph three references
\* deep, a dynamic reference followed by a plain one.
C9_Witness ==
    /\ last.op = "Want" /\ root # NilRoot
    /\ AcyclicGraph(data, root) /\ FullyPresent(data, root)
    /\ Cardinality(WalkNodes(data, root)) >= 3
    /\ Cardinality(DOMAIN data) < Len(Universe)

\* the store with the entry of h added under its hash
WithEntry(d, h) == put(d, h, Universe[h])

\* C10 as claimed: if one hash h is all that the store lacks of a fully
\* present acyclic graph, h being a hash the walk reaches or a schema that
\* the tag of a reference field names, Want succeeds and its result
\* contains h.
C10_WantFindsGapOrTagSchema ==
    (last.op = "Want" /\ root # NilRoot) =>
        \A h \in Keys \ DOMAIN data :
            LET full == WithEntry(data, h) IN
            (/\ AcyclicGraph(full, root) /\ FullyPresent(full, root)
             /\ h \in Hashes(WalkNodes(full, root)) \cup TagSchemas(full, root))
            => (last.err = "" /\ ~last.want.isNil /\ h \in last.want.keys)

\* C10 as amended: if one hash h is all that the store lacks of a fully
\* present acyclic graph, h being a hash the walk reaches (the root schema
\* or object, or the target schema or object of a plain, array-element or
\* dynamic reference), Want succeeds and its result contains h.  The
\* schema that the tag of an array field without elements names is not
\* reached.
C10_WantFindsGap ==
    (last.op = "Want" /\ root # NilRoot) =>
        \A h \in Keys \ DOMAIN data :
            LET full == WithEntry(data, h) IN
            (/\ AcyclicGraph(full, root) /\ FullyPresent(full, root)
             /\ h \in Hashes(WalkNodes(full, root)))
            => (last.err = "" /\ ~last.want.isNil /\ h \in last.want.keys)

\* C10 witness: Want reported the one hash that is missing, the target of
\* the innermost reference of a graph three references deep.
C10_Witness ==
    /\ last.op = "Want" /\ root # NilRoot /\ last.err = ""
    /\ \E h \in Keys \ DOMAIN data :
          LET full == WithEntry(data, h) IN
          /\ AcyclicGraph(full, root) /\ FullyPresent(full, root)
          /\ Cardinality(WalkNodes(full, root)) >= 3
          /\ h \in Hashes(WalkNodes(full, root))
          /\ h \notin {root.Schema, root.Root}
          /\ h \notin Hashes(Edges(full, root, <<root.Schema, root.Root>>))
          /\ last.want = WantMap({h})

\* the keys a call of want can be given: those of Universe and the zero key
WantKeys == {ZeroKey} \cup Keys

\* C11: when want(schk, objk) finds schk absent from the store, it returns
\* no error and exactly {schk} if objk is present, exactly {schk, objk} if
\* objk is absent; nothing the object refers to is in the result.  This is
\* so for the call that Want makes for the held root and for every other
\* pair of keys.
C11_ShallowGap ==
    (last.op = "Want" /\ root # NilRoot) =>
        /\ root.Schema \notin DOMAIN data =>
              /\ last.err = "" /\ ~last.panic
              /\ last.want = WantMap({root.Schema}
                                     \cup ({root.Root} \ DOMAIN data))
        /\ \A schk \in WantKeys \ DOMAIN data, objk \in WantKeys :
              want(data, root, schk, objk, {}) =
                  [want |-> WantMap({schk} \cup ({objk} \ DOMAIN data)),
                   err  |-> ""]

\* C11 witness: Want returned the schema alone for a root whose schema is
\* absent and whose object is present and holds a reference to an entry
\* that is absent as well.
C11_Witness ==
    /\ last.op = "Want" /\ root # NilRoot
    /\ root.Schema \notin DOMAIN data /\ root.Root \in DOMAIN data
    /\ last.want = WantMap({root.Schema})
    /\ \E i \in 1..Len(data[root.Root]) :
          /\ data[root.Root][i] \in Keys \ DOMAIN data
          /\ data[root.Root][i] # root.Schema

\* the node of the held root
RootNode(r) == <<r.Schema, r.Root>>

\* the root schema and object are present and decode, every reference
\* field of the root object is a plain or an array reference, and the
\* schema its tag names is registered, present, and has no reference field
PlainArrayLeaves(d, r) ==
    /\ Present(d, RootNode(r))
    /\ WellFormedNode(d, r, RootNode(r))
    /\ LET s == DeserializeRaw(d[r.Schema]) IN
       \A i \in RefFields(s.Fields) :
          LET t == schemaByTag(r, skyobjectTag(s.Fields[i])).s IN
          /\ s.Fields[i].Type \in {hrefTypeName, hrefArrayTypeName}
          /\ t \in DOMAIN d
          /\ DeserializeRaw(d[t]).err = ""
          /\ RefFields(DeserializeRaw(d[t]).Fields) = {}

\* the objects the reference fields of the root object refer to
RootTargets(d, r) == {n[2] : n \in Edges(d, r, RootNode(r))}

\* C12: for a present root object whose reference fields are plain or array
\* fields with registered, present target schemas that declare no
\* reference, Want returns no error and exactly the set of the target
\* object hashes that are absent from the store.
C12_WantExactLeaves ==
    (last.op = "Want" /\ root # NilRoot /\ PlainArrayLeaves(data, root)) =>
        /\ last.err = "" /\ ~last.panic
        /\ last.want = WantMap(RootTargets(data, root) \ DOMAIN data)

\* C12 witness: Want returned the one absent target of an array that
\* refers to two objects, the other being present.
C12_Witness ==
    /\ last.op = "Want" /\ root # NilRoot /\ PlainArrayLeaves(data, root)
    /\ Cardinality(RootTargets(data, root)) >= 2
    /\ Cardinality(RootTargets(data, root) \cap DOMAIN data) >= 1
    /\ \E h \in RootTargets(data, root) \ DOMAIN data :
          last.want = WantMap({h})

\* C13 as claimed: whenever Want on a held root returns an error the map
\* returned with it is nil, never an empty or partly filled map, and
\* whenever it returns no error the map is not nil.
C13_FailureAllOrNothing ==
    (last.op = "Want" /\ root # NilRoot /\ ~last.panic) =>
        /\ last.err # "" => last.want = NilWant
        /\ last.err = "" => ~last.want.isNil

\* the targets of those reference fields of the present node n that
\* decode and resolve, whether or not another field of the node fails
FieldEdges(d, r, n) ==
    LET s == DeserializeRaw(d[n[1]])
        f(i) == DeserializeField(d[n[2]], s.Fields, i)
        t(i) == schemaByTag(r, skyobjectTag(s.Fields[i]))
    IN  IF s.err # "" THEN {}
        ELSE UNION {
          IF f(i).err # "" THEN {}
          ELSE CASE s.Fields[i].Type = hrefTypeName ->
                      IF t(i).err # "" THEN {} ELSE {<<t(i).s, f(i).ref>>}
                 [] s.Fields[i].Type = hrefArrayTypeName ->
                      IF t(i).err # "" THEN {}
                      ELSE {<<t(i).s, f(i).refs[j]>> :
                               j \in 1..Len(f(i).refs)}
                 [] s.Fields[i].Type = dynamicHrefTypeName ->
                      {<<f(i).dh.Schema, f(i).dh.ObjKey>>}
                 [] OTHER -> {}
          : i \in RefFields(s.Fields) }

\* the nodes reached from the nodes of S along FieldEdges, S included
RECURSIVE Reach(_, _, _)
Reach(d, r, S) ==
    LET more == UNION {FieldEdges(d, r, n) : n \in {m \in S : Present(d, m)}}
    IN  IF more \subseteq S THEN S ELSE Reach(d, r, S \cup more)

\* the present node n lies on a cycle of references among present entries
OnCycle(d, r, n) == n \in Reach(d, r, FieldEdges(d, r, n))

\* no cycle of present objects with present schemas is reachable from the
\* root
NoCycle(d, r) ==
    \A n \in Reach(d, r, {RootNode(r)}) : Present(d, n) => ~OnCycle(d, r, n)

\* every present node of the walk is well formed, and one of them refers
\* to itself through the nodes it reaches
WalkedCycle(d, r) ==
    /\ \A n \in WalkNodes(d, r) : Present(d, n) => WellFormedNode(d, r, n)
    /\ \E n \in WalkNodes(d, r) :
          Present(d, n) /\ n \in Closure(d, r, Edges(d, r, n))

\* C17: Want returns, with a map or with an error, whenever no cycle of
\* present objects with present schemas is reachable from the held root;
\* and it does not return (the recursion has no end) when the walk, free
\* of errors, reaches such a cycle.
C17_WantTerminates ==
    (last.op = "Want" /\ root # NilRoot) =>
        /\ NoCycle(data, root) => ~last.panic
        /\ WalkedCycle(data, root) => last.panic

\* C17 witness: Want returned an error for a graph without a cycle in
\* which the root refers to two objects that hold a reference each.
C17_Witness ==
    /\ last.op = "Want" /\ root # NilRoot /\ NoCycle(data, root)
    /\ Cardinality(Reach(data, root, {RootNode(root)})) >= 4
    /\ ~last.panic /\ last.err # ""

\* C18: a Want call, whether it returns a map, returns an error or does
\* not return, leaves the table and the held root as they were before it.
C18_WantReadOnly ==
    [][last'.op = "Want" => (data' = data /\ root' = root)]_vars

\* C18 witness: Want was called on a held root over a table with entries
\* and did not return, the recursion having no end.
C18_Witness ==
    /\ last.op = "Want" /\ root # NilRoot /\ last.panic
    /\ Cardinality(DOMAIN data) >= 2

\* the payload a node fetches for the hash h: the bytes that hash to h;
\* none hash to the zero key
TruePayload(h) == IF h \in Keys THEN Slice(Universe[h]) ELSE NilSlice

\* C19 as claimed: for a held root over an acyclic graph whose tags all
\* resolve, every hash that Want returns is absent from the store and Add
\* stores it with its true payload, neither panicking nor returning "key
\* already present".
C19_WantedHashesAddable ==
    (/\ last.op = "Want" /\ root # NilRoot /\ AcyclicGraph(data, root)
     /\ last.err = "" /\ ~last.want.isNil) =>
        \A h \in last.want.keys :
            LET a == Add(data, h, TruePayload(h)) IN
            /\ ~has(data, h)
            /\ ~a.panic /\ a.err = ""
            /\ has(a.data, h)

-----------------------------------------------------------------------------
(* Claims about schemaByTag, checked under SpecTag.                        *)

\* the comma-separated tokens of a tag that begin with "schema="
SchemaTokens(tag) == SelectSeq(Split(tag, ","), HasSchemaPrefix)

\* the number of "=" in a token
EqualSigns(p) == Cardinality({i \in 1..Len(p) : p[i] = "="})

\* what follows "schema=" in a token
TokenName(p) == SubSeq(p, 3, Len(p))

-----------------------------------------------------------------------------
(* Claims about concurrent calls, checked under SpecConc.                  *)

\* C15 as claimed: a Statistic call that has returned holds the entry
\* count and the summed payload lengths of one table that existed between
\* its call and its return, and it read the table at no moment at which a
\* writer held the mutex.
C15_StatisticConsistentRead ==
    \A t \in Threads :
        (threads[t].op = "Statistic" /\ threads[t].pc = "done") =>
            /\ <<threads[t].total, threads[t].memory>> \in threads[t].snaps
            /\ ~threads[t].raced

\* the arguments of the call of goroutine t break a precondition
BadArguments(t) ==
    \/ threads[t].op = "Update" /\ threads[t].val.isNil
    \/ threads[t].op = "Add"
       /\ (threads[t].key = ZeroKey \/ threads[t].val.isNil)

\* the goroutines that hold the mutex
Holders == lock.writers \cup lock.readers

\* C16: Update with a nil payload and Add with a zero key or a nil payload
\* panic, and only they do; the step that panics changes neither the
\* table nor the mutex; a goroutine whose call panicked does not hold the
\* mutex, and whoever holds it is inside a call that goes on to release
\* it, so that the calls of the other goroutines proceed.
C16_PanicLeavesStoreIntact ==
    /\ [](\A t \in Threads :
            /\ threads[t].op \in {"Update", "Add"} =>
                  (threads[t].pc = "panic" <=> BadArguments(t))
            /\ threads[t].pc = "panic" => t \notin Holders
            /\ t \in Holders =>
                  threads[t].pc \in {"has", "write", "Unlock", "RUnlock"})
    /\ [][\A t \in Threads :
            (threads[t].pc # "panic" /\ threads'[t].pc = "panic") =>
                (data' = data /\ lock' = lock)]_vars

\* C16 witness: the call of one goroutine panicked on an Add with the zero
\* key, and another goroutine has since taken the mutex and stored an entry.
C16_Witness ==
    \E t, u \in Threads :
        /\ threads[t].op = "Add" /\ threads[t].pc = "panic"
        /\ threads[t].key = ZeroKey /\ ~threads[t].val.isNil
        /\ threads[u].op = "Add" /\ threads[u].pc = "done"
        /\ threads[u].err = "" /\ threads[u].absent
        /\ has(data, threads[u].key)

\* the goroutines that called Add with key while it was absent
Adders(key) ==
    {t \in Threads : /\ threads[t].op = "Add" /\ threads[t].key = key
                     /\ threads[t].absent /\ ~BadArguments(t)}

\* the Add calls among them that have returned without an error
Winners(key) ==
    {t \in Adders(key) : threads[t].pc = "done" /\ threads[t].err = ""}

\* C20: when two or more goroutines call Add with the same key, absent when
\* each call began, and no Update stores under that key, at most one of
\* the calls returns without an error; once all have returned exactly one
\* has, every other has returned "key already present", and the payload
\* under the key is the one the successful call passed.
C20_ConcurrentAddAtomic ==
    \A key \in StoreKeys :
        (/\ Cardinality(Adders(key)) >= 2
         /\ \A t \in Threads :
               ~(threads[t].op = "Update" /\ threads[t].key = key)) =>
            /\ Cardinality(Winners(key)) <= 1
            /\ \A w \in Winners(key) : data[key] = threads[w].val.b
            /\ (\A t \in Adders(key) : threads[t].pc = "done") =>
                  /\ Cardinality(Winners(key)) = 1
                  /\ \A t \in Adders(key) \ Winners(key) :
                        threads[t].err = "key already present"

\* C20 witness: two goroutines called Add with the same absent key and
\* different payloads, and both calls have returned.
C20_Witness ==
    \E key \in StoreKeys : \E t, u \in Adders(key) :
        /\ threads[t].val # threads[u].val
        /\ threads[t].pc = "done" /\ threads[u].pc = "done"
        /\ threads[t].err = "" /\ threads[u].err # ""

====
